---- MODULE Spec2Model ----
(***************************************************************************)
(* Model of the tfltt timetable renderer (timetable_renderer.go):          *)
(* NewTimetableRenderer, TimetableRenderer.RenderAsText and                *)
(* calculateArrivalTime; and of the station resolver (main.go):            *)
(* getLinesAndStops, getSpecificIDsFromChildren, resolveStopPointID and    *)
(* findDeepID.                                                             *)
(*                                                                         *)
(* Representation.                                                         *)
(*  - A Go string is a sequence of one-character strings; every string of  *)
(*    the model is ASCII, so len() and slicing count characters.           *)
(*  - A float64 is represented by the integer number of half minutes it    *)
(*    holds (11 is 5.5, -1 is -0.5); int(x) is TruncToInt.                 *)
(*  - A map is a function; a lookup of an absent key is written out as the *)
(*    zero value the Go lookup gives.                                      *)
(*  - The text RenderAsText returns is the sequence of its lines, each     *)
(*    line being the characters written before its "\n".                   *)
(***************************************************************************)
EXTENDS Integers, Sequences, FiniteSets, TLC

VARIABLES
  resp,     \* the timetable response handed to NewTimetableRenderer
  pc,       \* "start", "built", "failed"
  tr,       \* the *TimetableRenderer returned (tr.nil when it is nil)
  err,      \* TRUE iff NewTimetableRenderer returned a non-nil error
  args,     \* <<maxJourneys, stationColWidth>> of the last RenderAsText call
  out,      \* its outcome: NotCalled, Panicked, OutOfMemory or Returned(text)
  cHour,    \* calculateArrivalTime: the hour argument
  cMinute,  \* calculateArrivalTime: the minute argument
  cOffset,  \* calculateArrivalTime: the offsetMinutes argument
  cResult,  \* calculateArrivalTime: NotCalled or Returned(string)
  op,       \* resolver: the function called, or "none"
  station,  \* getLinesAndStops: the stationName argument
  rid,      \* resolveStopPointID: the id argument
  gpc,      \* resolver: the upstream call that comes next, or "done"
  matches,  \* the identifiers of searchResp.Payload.Matches
  calls,    \* the upstream calls issued so far, with their outcome
  payload,  \* resp.Payload of the last StopPointGet that answered
  naptanIDs, \* getLinesAndStops: naptanIDs when its first loop ends
  ret,      \* resolver: what the function returned (ret.done once it has)
  walker,   \* child walk: the function walking, or "none"
  heap,     \* child walk: the Children list of every place
  wpc,      \* child walk: "start", "run", "done", "overflow" or "idle"
  wstack,   \* child walk: the frames of the recursion, outermost first
  wids      \* child walk: the identifiers collected or found so far

vars == <<resp, pc, tr, err, args, out, cHour, cMinute, cOffset, cResult,
          op, station, rid, gpc, matches, calls, payload, naptanIDs, ret,
          walker, heap, wpc, wstack, wids>>
rvars == <<resp, pc, tr, err, args, out>>
cvars == <<cHour, cMinute, cOffset, cResult>>
gvars == <<op, station, rid, gpc, matches, calls, payload, naptanIDs, ret>>
wvars == <<walker, heap, wpc, wstack, wids>>

\* the outcome of a call that has not been made, of one that panicked, and
\* of one in which the runtime ended the process for lack of memory
\* ("fatal error: out of memory", which no recover catches)
NotCalled == [kind |-> "none", text |-> <<>>]
Panicked == [kind |-> "panic", text |-> <<>>]
OutOfMemory == [kind |-> "fatal", text |-> <<>>]
Returned(t) == [kind |-> "text", text |-> t]

\* what a resolver function has returned; NotReturned before it has
Ret(pairs, id, failed) ==
  [done |-> TRUE, pairs |-> pairs, id |-> id, err |-> failed]
NotReturned == [done |-> FALSE, pairs |-> <<>>, id |-> <<>>, err |-> FALSE]

\* the resolver and the child walk when they are not the subject of a run
IdleResolver ==
  /\ op = "none"
  /\ station = <<>>
  /\ rid = <<>>
  /\ gpc = "idle"
  /\ matches = <<>>
  /\ calls = <<>>
  /\ payload = <<>>
  /\ naptanIDs = <<>>
  /\ ret = NotReturned
IdleWalk ==
  /\ walker = "none"
  /\ heap = <<>>
  /\ wpc = "idle"
  /\ wstack = <<>>
  /\ wids = <<>>

(***************************************************************************)
(* Bounds of the model.                                                    *)
(***************************************************************************)
MaxStrLen == 2      \* length of the hour strings tried on the calculator
MaxGroups == 2      \* interval groups of a route
MaxJourneys == 3    \* journeys of a schedule
MaxRoutes == 2      \* routes of a response
MaxWidth == 4       \* largest stationColWidth passed to RenderAsText
MaxLimit == 2       \* largest maxJourneys passed to RenderAsText

(***************************************************************************)
(* Strings.                                                                *)
(***************************************************************************)
Digits == <<"0", "1", "2", "3", "4", "5", "6", "7", "8", "9">>
DigitChars == {Digits[i] : i \in 1..10}
DigitVal(c) == (CHOOSE i \in 1..10 : Digits[i] = c) - 1

Range(s) == {s[i] : i \in 1..Len(s)}

SeqUpTo(S, n) == UNION {[1..k -> S] : k \in 0..n}

Abs(n) == IF n < 0 THEN -n ELSE n
Min(a, b) == IF a < b THEN a ELSE b

\* n copies of the character c (strings.Repeat; padding of the fmt verbs)
Repeat(c, n) == [i \in 1..n |-> c]

\* the decimal digits of n >= 0, as %d writes them
RECURSIVE Itoa(_)
Itoa(n) == IF n < 10 THEN <<Digits[n + 1]>>
           ELSE Itoa(n \div 10) \o <<Digits[(n % 10) + 1]>>

\* fmt's %02d: at least two characters, zeros after the sign
Fmt02d(n) ==
  IF n < 0
    THEN LET d == Itoa(-n) IN <<"-">> \o Repeat("0", 1 - Len(d)) \o d
    ELSE LET d == Itoa(n) IN Repeat("0", 2 - Len(d)) \o d

\* fmt's %-*s: s left-justified in |w| characters, never cut; a width
\* beyond a million either way is refused: "%!(BADWIDTH)" is written and s
\* is not padded
BadWidth == <<"%", "!", "(", "B", "A", "D", "W", "I", "D", "T", "H", ")">>
TooLarge(w) == w > 1000000 \/ w < -1000000
PadRight(s, w) ==
  IF TooLarge(w) THEN BadWidth \o s
  ELSE s \o Repeat(" ", Abs(w) - Len(s))

(***************************************************************************)
(* Go's integer and float conversions.                                     *)
(***************************************************************************)
\* Go's int is 64 bits wide and its arithmetic wraps around.  (The first
\* test changes nothing: it answers for the numbers that need no wrapping
\* without computing 2^63.)
Int64(n) ==
  IF -2147483647 <= n /\ n <= 2147483647 THEN n
  ELSE ((n + 2^63) % 2^64) - 2^63

\* what int(x) gives for a float64 that no int holds: the language leaves
\* it to the implementation, which gives some int
OutOfRangeInt == CHOOSE f \in [Int -> {n \in Int : Int64(n) = n}] : TRUE

\* int(x) of a float64: truncation toward zero (x in half minutes)
TruncToInt(x) ==
  LET t == IF x >= 0 THEN x \div 2 ELSE -((-x) \div 2)
  IN  IF Int64(t) = t THEN t ELSE OutOfRangeInt[x]

\* Go's / and % on int: the quotient truncates toward zero, the remainder
\* has the sign of the dividend
Quo(a, b) == IF a >= 0 THEN a \div b ELSE -((-a) \div b)
Rem(a, b) == a - b * Quo(a, b)

(***************************************************************************)
(* fmt.Sscanf(s, "%d", &v): leading white space is skipped (a newline met  *)
(* there ends the scan with an error), an optional sign and the longest    *)
(* run of decimal digits form the token, and the rest of s is left unread. *)
(* When there is no digit, or the token does not fit an int64, the scan    *)
(* fails and v keeps its initial value 0.                                  *)
(***************************************************************************)
\* the white space of the model's strings other than the newline: space,
\* tab, carriage return, form feed and vertical tab (the strings are ASCII;
\* the spaces beyond ASCII do not occur in them)
VerticalTab == ""
SpaceChars == {" ", "\t", "\r", "\f", VerticalTab}

\* SkipSpace: what is left to read; a newline met is read, and is an error
RECURSIVE DropSpaces(_)
DropSpaces(s) ==
  IF s = <<>> THEN s
  ELSE IF Head(s) = "\n" THEN Tail(s)
  ELSE IF Head(s) \in SpaceChars THEN DropSpaces(Tail(s))
  ELSE s
RECURSIVE NewlineMet(_)
NewlineMet(s) ==
  /\ s # <<>>
  /\ \/ Head(s) = "\n"
     \/ Head(s) \in SpaceChars /\ NewlineMet(Tail(s))

\* scanNumber: the digits at the head of s
RECURSIVE NumberRun(_)
NumberRun(s) ==
  IF s # <<>> /\ Head(s) \in DigitChars
    THEN <<Head(s)>> \o NumberRun(Tail(s))
    ELSE <<>>

RECURSIVE DecimalValue(_)
DecimalValue(d) ==
  IF d = <<>> THEN 0
  ELSE 10 * DecimalValue(SubSeq(d, 1, Len(d) - 1)) + DigitVal(d[Len(d)])

\* digit strings compared as numbers
RECURSIVE StripZeros(_)
StripZeros(d) == IF d # <<>> /\ Head(d) = "0" THEN StripZeros(Tail(d)) ELSE d
RECURSIVE LexGreater(_, _)
LexGreater(d, e) ==
  /\ d # <<>>
  /\ \/ DigitVal(Head(d)) > DigitVal(Head(e))
     \/ Head(d) = Head(e) /\ LexGreater(Tail(d), Tail(e))
DigitsExceed(d, limit) ==
  \/ Len(StripZeros(d)) > Len(limit)
  \/ Len(StripZeros(d)) = Len(limit) /\ LexGreater(StripZeros(d), limit)

\* 2^63 - 1 and 2^63: the range of the int64 the token is parsed into
MaxInt64Digits ==
  <<"9", "2", "2", "3", "3", "7", "2", "0", "3", "6",
    "8", "5", "4", "7", "7", "5", "8", "0", "7">>
MinInt64Digits ==
  <<"9", "2", "2", "3", "3", "7", "2", "0", "3", "6",
    "8", "5", "4", "7", "7", "5", "8", "0", "8">>

\* a scan that takes the number only when the whole string is digits (of a
\* number an int64 holds)
ZeroUnlessDigits(s) ==
  IF s # <<>> /\ Range(s) \subseteq DigitChars /\ ~DigitsExceed(s, MaxInt64Digits)
    THEN DecimalValue(s)
    ELSE 0

SscanfInt(s) ==
  LET t == DropSpaces(s)
      signed == t # <<>> /\ Head(t) \in {"+", "-"}
      neg == signed /\ Head(t) = "-"
      run == NumberRun(IF signed THEN Tail(t) ELSE t)
  IN  IF NewlineMet(s) \/ run = <<>> THEN 0
      ELSE IF DigitsExceed(run, IF neg THEN MinInt64Digits ELSE MaxInt64Digits) THEN 0
      ELSE IF neg THEN -DecimalValue(run)
      ELSE DecimalValue(run)

(***************************************************************************)
(* calculateArrivalTime                                                    *)
(***************************************************************************)
\* lines 159-163, for the values h and m scanned from the two strings
ArrivalOf(h, m, offsetMinutes) ==
  LET totalMinutes == Int64(Int64(Int64(h * 60) + m) + TruncToInt(offsetMinutes))
      newH == Rem(Quo(totalMinutes, 60), 24)
      newM == Rem(totalMinutes, 60)
  IN  Fmt02d(newH) \o <<":">> \o Fmt02d(newM)

calculateArrivalTime(hour, minute, offsetMinutes) ==
  ArrivalOf(SscanfInt(hour), SscanfInt(minute), offsetMinutes)

(***************************************************************************)
(* Inputs of the calculator.                                               *)
(***************************************************************************)
CalcChars == {"0", "2", "3", "9", "b", "-", " "}
\* digit runs no int64 holds: twenty 9s, 2^63, and 2^63 + 1 with a minus sign
TwentyNines == [i \in 1..20 |-> "9"]
AboveInt64 == MinInt64Digits
BelowInt64 == <<"-">> \o SubSeq(MinInt64Digits, 1, 18) \o <<"9">>
HourStrings ==
  SeqUpTo(CalcChars, MaxStrLen) \cup {<<"b", "a", "d">>, TwentyNines, BelowInt64}
MinuteStrings ==
  { <<"0", "0">>, <<"0", "5">>, <<"5", "0">>, <<"3", "0">>, <<"5", "x">>,
    <<"+", "7">>, <<"-", "7">>, <<"-">>, <<"1", "_", "0">>, <<>>,
    <<"\t", "5">>, <<" ", "\n", "5">>, <<VerticalTab, "7">>,
    TwentyNines \o <<"x">>, <<"0", "0">> \o AboveInt64 }
\* 0, 0.5, 5, 5.5, 20, 1440.5 minutes and -0.5, -5.5, -70 minutes
OffsetValues == {0, 1, 10, 11, 40, 2881, -1, -11, -140}

InitCalc ==
  /\ cHour \in HourStrings
  /\ cMinute \in MinuteStrings
  /\ cOffset \in OffsetValues
  /\ cResult = NotCalled

IdleCalc ==
  /\ cHour = <<>>
  /\ cMinute = <<>>
  /\ cOffset = 0
  /\ cResult = NotCalled

CallCalculateArrivalTime ==
  /\ cResult = NotCalled
  /\ cResult' = Returned(calculateArrivalTime(cHour, cMinute, cOffset))
  /\ UNCHANGED <<cHour, cMinute, cOffset>>
  /\ UNCHANGED <<rvars, gvars, wvars>>

(***************************************************************************)
(* strconv.ParseInt(s, 10, 32) with its error dropped, as the renderer     *)
(* calls it.  After the optional sign the characters are read from the     *)
(* left: the first one that is no digit is a syntax error (0); a digit     *)
(* with which the number read so far exceeds 2^32 - 1 is a range error,    *)
(* found before the rest is looked at (the nearest int32).  A number that  *)
(* was read to its end and does not fit an int32 gives the nearest int32.  *)
(***************************************************************************)
MaxInt32 == 2147483647
MaxUint32Digits == <<"4", "2", "9", "4", "9", "6", "7", "2", "9", "5">>
MaxInt32Digits == <<"2", "1", "4", "7", "4", "8", "3", "6", "4", "7">>

\* ParseUint from character k on: "ok", "syntax" or "range"
RECURSIVE ScanUint(_, _)
ScanUint(d, k) ==
  IF k > Len(d) THEN "ok"
  ELSE IF d[k] \notin DigitChars THEN "syntax"
  ELSE IF DigitsExceed(SubSeq(d, 1, k), MaxUint32Digits) THEN "range"
  ELSE ScanUint(d, k + 1)

ParseInt32(s) ==
  LET signed == s # <<>> /\ Head(s) \in {"+", "-"}
      neg == signed /\ Head(s) = "-"
      d == IF signed THEN Tail(s) ELSE s
      scan == ScanUint(d, 1)
  IN  IF d = <<>> \/ scan = "syntax" THEN 0
      ELSE IF neg
        \* -2^31 itself and everything below it give -2^31
        THEN IF scan = "range" \/ DigitsExceed(d, MaxInt32Digits)
               THEN (-MaxInt32) - 1
               ELSE -DecimalValue(d)
      ELSE IF scan = "range" \/ DigitsExceed(d, MaxInt32Digits)
        THEN MaxInt32
        ELSE DecimalValue(d)

(***************************************************************************)
(* Maps.                                                                   *)
(***************************************************************************)
EmptyMap == [k \in {} |-> 0]
MapPut(m, k, v) == [x \in DOMAIN m \cup {k} |-> IF x = k THEN v ELSE m[x]]
\* m[k] of a map[string]string: "" when k is absent
NameOf(m, k) == IF k \in DOMAIN m THEN m[k] ELSE <<>>

(***************************************************************************)
(* NewTimetableRenderer                                                    *)
(***************************************************************************)
NilRenderer ==
  [nil |-> TRUE, targetRoute |-> <<>>, schedule |-> <<>>,
   stationNames |-> EmptyMap, stops |-> <<>>, intervalData |-> EmptyMap]

\* a selection that looks at the route at index i only
FirstRouteOnly(routes, i) ==
  IF i <= Len(routes) /\ Len(routes[i].Schedules) > 0 THEN i ELSE 0

\* lines 30-36: the index of the first route with a schedule, 0 when none
RECURSIVE FirstRouteFrom(_, _)
FirstRouteFrom(routes, i) ==
  IF i > Len(routes) THEN 0
  ELSE IF Len(routes[i].Schedules) > 0 THEN i
  ELSE FirstRouteFrom(routes, i + 1)

TargetRouteIndex(r) ==
  IF ~r.hasTimetable \/ Len(r.Routes) = 0 THEN 0
  ELSE FirstRouteFrom(r.Routes, 1)

\* lines 47-49: every entry of Stops is stored, a later one replacing an
\* earlier one of the same ID
RECURSIVE AddStops(_, _)
AddStops(m, list) ==
  IF list = <<>> THEN m
  ELSE AddStops(MapPut(m, Head(list).ID, Head(list).Name), Tail(list))

\* lines 50-54: a station is stored, with " [S]" appended, only when its ID
\* is not in the map yet
RECURSIVE AddStations(_, _)
AddStations(m, list) ==
  IF list = <<>> THEN m
  ELSE IF Head(list).ID \in DOMAIN m THEN AddStations(m, Tail(list))
  ELSE AddStations(
         MapPut(m, Head(list).ID, Head(list).Name \o <<" ", "[", "S", "]">>),
         Tail(list))

StationNames(r) == AddStations(AddStops(EmptyMap, r.Stops), r.Stations)

\* lines 69-73: the offset table of one interval group
RECURSIVE PutIntervals(_, _)
PutIntervals(m, intervals) ==
  IF intervals = <<>> THEN m
  ELSE PutIntervals(
         MapPut(m, Head(intervals).StopID, Head(intervals).TimeToArrival),
         Tail(intervals))

GroupOffsets(depID, intervals) == PutIntervals(MapPut(EmptyMap, depID, 0), intervals)

\* an append without the addedStops test
AppendEveryStop(stops, intervals, names) ==
  stops \o [i \in 1..Len(intervals) |->
             [id |-> intervals[i].StopID, name |-> NameOf(names, intervals[i].StopID)]]

\* lines 74-77: the stops of one interval list not added yet are appended
\* (addedStops holds exactly the ids of stops)
RECURSIVE AppendNewStops(_, _, _)
AppendNewStops(stops, intervals, names) ==
  IF intervals = <<>> THEN stops
  ELSE LET id == Head(intervals).StopID
       IN  IF id \in {stops[i].id : i \in 1..Len(stops)}
             THEN AppendNewStops(stops, Tail(intervals), names)
             ELSE AppendNewStops(
                    Append(stops, [id |-> id, name |-> NameOf(names, id)]),
                    Tail(intervals), names)

\* a collection that takes the interval groups last to first
RECURSIVE CollectStopsLastGroupFirst(_, _, _)
CollectStopsLastGroupFirst(stops, groups, names) ==
  IF groups = <<>> THEN stops
  ELSE CollectStopsLastGroupFirst(
         AppendNewStops(stops, groups[Len(groups)].Intervals, names),
         SubSeq(groups, 1, Len(groups) - 1), names)

\* lines 56-62 and 65-80, the stops
RECURSIVE CollectStops(_, _, _)
CollectStops(stops, groups, names) ==
  IF groups = <<>> THEN stops
  ELSE CollectStops(AppendNewStops(stops, Head(groups).Intervals, names),
                    Tail(groups), names)

BuildStops(depID, groups, names) ==
  CollectStops(<<[id |-> depID, name |-> NameOf(names, depID)]>>, groups, names)

\* lines 58 and 65-80, the offset tables
RECURSIVE PutGroups(_, _, _)
PutGroups(data, depID, groups) ==
  IF groups = <<>> THEN data
  ELSE PutGroups(
         MapPut(data, ParseInt32(Head(groups).ID),
                GroupOffsets(depID, Head(groups).Intervals)),
         depID, Tail(groups))

BuildIntervalData(depID, groups) == PutGroups(EmptyMap, depID, groups)

\* a renderer whose stops and offset tables come from the first route
BuildRendererFromFirstRoute(r) ==
  LET route == r.Routes[TargetRouteIndex(r)]
      names == StationNames(r)
  IN  [nil |-> FALSE,
       targetRoute |-> route,
       schedule |-> route.Schedules[1],
       stationNames |-> names,
       stops |-> BuildStops(r.DepartureStopID, r.Routes[1].StationIntervals, names),
       intervalData |-> BuildIntervalData(r.DepartureStopID, r.Routes[1].StationIntervals)]

BuildRenderer(r) ==
  LET route == r.Routes[TargetRouteIndex(r)]
      names == StationNames(r)
  IN  [nil |-> FALSE,
       targetRoute |-> route,
       schedule |-> route.Schedules[1],
       stationNames |-> names,
       stops |-> BuildStops(r.DepartureStopID, route.StationIntervals, names),
       intervalData |-> BuildIntervalData(r.DepartureStopID, route.StationIntervals)]

NewTimetableRenderer ==
  /\ pc = "start"
  /\ IF TargetRouteIndex(resp) = 0
       THEN /\ pc' = "failed"
            /\ tr' = NilRenderer
            /\ err' = TRUE
       ELSE /\ pc' = "built"
            /\ tr' = BuildRenderer(resp)
            /\ err' = FALSE
  /\ UNCHANGED <<resp, args, out>>
  /\ UNCHANGED <<cvars, gvars, wvars>>

(***************************************************************************)
(* TimetableRenderer.RenderAsText                                          *)
(***************************************************************************)
colWidth == 10

RECURSIVE Concat(_)
Concat(ss) == IF ss = <<>> THEN <<>> ELSE Head(ss) \o Concat(Tail(ss))

\* " | %-*s" with colWidth
Column(s) == <<" ", "|", " ">> \o PadRight(s, colWidth)

\* a truncation that keeps the last maxJourneys journeys
LastJourneys(journeys, maxJourneys) ==
  IF maxJourneys > 0 /\ Len(journeys) > maxJourneys
    THEN SubSeq(journeys, Len(journeys) - maxJourneys + 1, Len(journeys))
    ELSE journeys

\* A Go slice is a window on an array: the array and the number of its
\* elements the slice shows.  s[:hi] is another window on the same array;
\* assigning it to a variable changes that variable and no other slice.
SliceOn(array) == [array |-> array, len |-> Len(array)]
Reslice(s, hi) == [s EXCEPT !.len = hi]
Elements(s) == SubSeq(s.array, 1, s.len)

\* a truncation that is assigned to the schedule's field as well
TruncationWrittenBack(field, maxJourneys) ==
  LET cut == IF maxJourneys > 0 /\ field.len > maxJourneys
               THEN Reslice(field, maxJourneys)
               ELSE field
  IN  [field |-> cut, journeys |-> cut]

\* lines 96-100: the schedule's field KnownJourneys and the local variable
\* journeys after the statements.  Line 96 copies the field's slice to the
\* variable, line 99 assigns the shorter slice to the variable; the field
\* is not assigned and no element of the array is written.
Truncation(field, maxJourneys) ==
  LET journeys == field
  IN  [field |-> field,
       journeys |-> IF maxJourneys > 0 /\ journeys.len > maxJourneys
                      THEN Reslice(journeys, maxJourneys)
                      ELSE journeys]

\* lines 96-100: the journeys that get a column
RenderedJourneys(journeys, maxJourneys) ==
  Elements(Truncation(SliceOn(journeys), maxJourneys).journeys)

\* the renderer a call leaves: of all it points to, lines 93-145 assign to
\* the builder and to local variables only; the journey list is what the
\* schedule's field shows after lines 96-100
RendererAfterRender(t, maxJourneys) ==
  [t EXCEPT !.schedule.KnownJourneys =
     Elements(Truncation(SliceOn(@), maxJourneys).field)]

\* lines 114-117: the station name shown
ShownName(name, stationColWidth) ==
  IF Len(name) > stationColWidth
    THEN SubSeq(name, 1, stationColWidth - 3) \o <<".", ".", ".">>
    ELSE name

\* lines 121-128: the offset table of journey j, the first group's when the
\* journey's own is absent, none when the route has no group
JourneyOffsets(t, j) ==
  IF j.IntervalID \in DOMAIN t.intervalData
    THEN [ok |-> TRUE, offsets |-> t.intervalData[j.IntervalID]]
  ELSE IF Len(t.targetRoute.StationIntervals) > 0
    THEN [ok |-> TRUE,
          offsets |-> t.intervalData[ParseInt32(t.targetRoute.StationIntervals[1].ID)]]
  ELSE [ok |-> FALSE, offsets |-> EmptyMap]

\* the two markers exchanged
CellTextMarkersSwapped(t, s, j) ==
  LET r == JourneyOffsets(t, j)
  IN  IF r.ok
        THEN IF s.id \in DOMAIN r.offsets
               THEN calculateArrivalTime(j.Hour, j.Minute, r.offsets[s.id])
               ELSE <<"e", "r", "r">>
        ELSE <<"-", "-", "-">>

\* lines 130-140: what is written in the cell of stop s and journey j
CellText(t, s, j) ==
  LET r == JourneyOffsets(t, j)
  IN  IF r.ok
        THEN IF s.id \in DOMAIN r.offsets
               THEN calculateArrivalTime(j.Hour, j.Minute, r.offsets[s.id])
               ELSE <<"-", "-", "-">>
        ELSE <<"e", "r", "r">>

TitleLine(r) ==
  <<"T", "i", "m", "e", "t", "a", "b", "l", "e", " ", "f", "o", "r", " ">>
    \o r.LineName \o <<" ", "a", "t", " ">> \o r.DepartureStopID

ScheduleLine(t) ==
  <<"S", "c", "h", "e", "d", "u", "l", "e", ":", " ">> \o t.schedule.Name

HeaderLine(n, stationColWidth) ==
  PadRight(<<"S", "t", "a", "t", "i", "o", "n">>, stationColWidth)
    \o Concat([i \in 1..n |->
                 Column(<<"T", "r", "a", "i", "n", " ">> \o Itoa(i))])

\* How far the memory of the machine reaches in a call of RenderAsText.  It
\* is the machine's and not the program's: nothing in the code or in the
\* runtime promises any amount.
\*   "none"    the first write to the builder (line 93) cannot allocate
\*   "header"  lines 93-108 are written; strings.Repeat cannot allocate
\*   "line"    strings.Repeat returns its string; fmt cannot copy it to the
\*             builder, or a later write cannot allocate
\*   "ample"   every allocation of the call succeeds
Memory == {"none", "header", "line", "ample"}

\* strings.Repeat(c, count) of a one-character string panics on a negative
\* count, and makeslice panics on a count above maxAlloc = 2^48.  (The first
\* test answers for the small counts without computing 2^48.)
RepeatFails(count) ==
  IF count <= 2147483647 THEN count < 0 ELSE count > 2^48

\* strings.Repeat(c, count): counts 0 and 1 are answered without an
\* allocation; any other count allocates count bytes
StringsRepeat(c, count, memory) ==
  IF RepeatFails(count) THEN Panicked
  ELSE IF count > 1 /\ memory \in {"none", "header"} THEN OutOfMemory
  ELSE Returned(Repeat(c, count))

\* line 109: the count is a sum of 64-bit ints and wraps around as they do
SeparatorCount(n, stationColWidth) ==
  Int64(stationColWidth + Int64(n * (colWidth + 3)))
SeparatorLine(n, stationColWidth, memory) ==
  StringsRepeat("-", SeparatorCount(n, stationColWidth), memory)

RowLine(t, s, journeys, stationColWidth) ==
  PadRight(ShownName(s.name, stationColWidth), stationColWidth)
    \o Concat([k \in 1..Len(journeys) |-> Column(CellText(t, s, journeys[k]))])

\* the panics of a call: strings.Repeat on the count of line 109 (negative,
\* also by wrap-around, or above maxAlloc), and the slice
\* name[:stationColWidth-3] with a negative bound (line 116)
RenderPanics(t, n, stationColWidth) ==
  \/ RepeatFails(SeparatorCount(n, stationColWidth))
  \/ \E i \in 1..Len(t.stops) :
       /\ Len(t.stops[i].name) > stationColWidth
       /\ stationColWidth - 3 < 0

\* the statements in their order: the writes of lines 93-108, strings.Repeat
\* and the print of its string (line 109), then the rows
RenderAsText(t, r, maxJourneys, stationColWidth, memory) ==
  LET journeys == RenderedJourneys(t.schedule.KnownJourneys, maxJourneys)
      line == SeparatorLine(Len(journeys), stationColWidth, memory)
  IN  IF memory = "none" THEN OutOfMemory
      ELSE IF line.kind # "text" THEN line
      ELSE IF memory # "ample" THEN OutOfMemory
      ELSE IF RenderPanics(t, Len(journeys), stationColWidth) THEN Panicked
      ELSE Returned(
             <<TitleLine(r), <<>>, ScheduleLine(t),
               HeaderLine(Len(journeys), stationColWidth),
               line.text>>
             \o [i \in 1..Len(t.stops) |->
                   RowLine(t, t.stops[i], journeys, stationColWidth)])

\* a call on the renderer of a process that is still running
CallRenderAsText ==
  /\ pc = "built"
  /\ out.kind # "fatal"
  /\ \E maxJourneys \in -1..MaxLimit, stationColWidth \in -1..MaxWidth,
        memory \in Memory :
       /\ args' = <<maxJourneys, stationColWidth>>
       /\ out' = RenderAsText(tr, resp, maxJourneys, stationColWidth, memory)
       /\ tr' = RendererAfterRender(tr, maxJourneys)
  /\ UNCHANGED <<resp, pc, err>>
  /\ UNCHANGED <<cvars, gvars, wvars>>

(***************************************************************************)
(* Inputs of the renderer: the responses tried.                            *)
(***************************************************************************)
DEP == <<"D", "E", "P">>
StopA == <<"A">>
StopB == <<"B">>

Interval(stop, halfMinutes) == [StopID |-> stop, TimeToArrival |-> halfMinutes]
Group(id, intervals) == [ID |-> id, Intervals |-> intervals]
Journey(h, m, id) == [Hour |-> h, Minute |-> m, IntervalID |-> id]
Named(id, name) == [ID |-> id, Name |-> name]

\* group 1 = {A: 5, B: 12}; group 2 = {B: 15.5}, without A; a second group
\* "1" that lists the departure stop itself, at 3 minutes; a group whose
\* identifier is no number and that lists nothing; a group "+2" that lists
\* the departure stop at 0 and stop B twice
GroupPool ==
  { Group(<<"1">>, <<Interval(StopA, 10), Interval(StopB, 24)>>),
    Group(<<"2">>, <<Interval(StopB, 31)>>),
    Group(<<"1">>, <<Interval(DEP, 6), Interval(StopA, 11)>>),
    Group(<<"x">>, <<>>),
    Group(<<"+", "2">>, <<Interval(DEP, 0), Interval(StopB, 24), Interval(StopB, 30)>>) }

\* 10:00 in group 1, 23:50 in group 2, a malformed hour in group 3 (which
\* no route defines)
JourneyPool ==
  { Journey(<<"1", "0">>, <<"0", "0">>, 1),
    Journey(<<"2", "3">>, <<"5", "0">>, 2),
    Journey(<<"b", "a", "d">>, <<"3", "0">>, 3) }

Schedule(name, journeys) == [Name |-> name, KnownJourneys |-> journeys]
Route(schedules, groups) == [Schedules |-> schedules, StationIntervals |-> groups]

WeekdaySchedule ==
  Schedule(<<"W">>,
           << Journey(<<"1", "0">>, <<"0", "0">>, 1),
              Journey(<<"2", "3">>, <<"5", "0">>, 2),
              Journey(<<"b", "a", "d">>, <<"3", "0">>, 3) >>)
SundaySchedule == Schedule(<<"S">>, <<Journey(<<"2", "3">>, <<"5", "0">>, 2)>>)

GroupOne == Group(<<"1">>, <<Interval(StopA, 10), Interval(StopB, 24)>>)
GroupTwo == Group(<<"2">>, <<Interval(StopB, 31)>>)

RoutePool ==
  { Route(<<>>, <<GroupOne>>),
    Route(<<WeekdaySchedule>>, <<GroupOne, GroupTwo>>),
    Route(<<SundaySchedule, WeekdaySchedule>>, <<GroupTwo>>),
    Route(<<SundaySchedule>>, <<>>) }

\* DEP is "Depot", A is "Abc" (the stop list wins over the station list),
\* B is known as a station only: "B [S]"
NamesOne ==
  [Stops |-> <<Named(DEP, <<"D", "e", "p", "o", "t">>), Named(StopA, <<"A", "b", "c">>)>>,
   Stations |-> <<Named(StopA, <<"Z", "z">>), Named(StopB, <<"B">>)>>]
\* A is listed twice as a stop, DEP twice as a station, B nowhere
NamesTwo ==
  [Stops |-> <<Named(StopA, <<"A", "l">>), Named(StopA, <<"A", "l", "p", "h", "a">>)>>,
   Stations |-> <<Named(DEP, <<"D", "p">>), Named(DEP, <<"X">>)>>]

Response(hasTimetable, routes, names) ==
  [hasTimetable |-> hasTimetable,
   LineName |-> <<"L">>,
   DepartureStopID |-> DEP,
   Routes |-> routes,
   Stops |-> names.Stops,
   Stations |-> names.Stations]

Responses ==
  \* one route with the weekday schedule and any interval groups
  { Response(TRUE, <<Route(<<WeekdaySchedule>>, gs)>>, NamesOne) :
      gs \in SeqUpTo(GroupPool, MaxGroups) }
  \cup
  \* one route with groups 1 and 2 and any journeys
  { Response(TRUE, <<Route(<<Schedule(<<"W">>, js)>>, <<GroupOne, GroupTwo>>)>>, NamesOne) :
      js \in SeqUpTo(JourneyPool, MaxJourneys) }
  \cup
  \* any routes, under either list of names; no timetable at all
  { Response(TRUE, rs, ns) :
      rs \in SeqUpTo(RoutePool, MaxRoutes), ns \in {NamesOne, NamesTwo} }
  \cup
  { Response(FALSE, <<>>, NamesOne) }

InitRenderer ==
  /\ resp \in Responses
  /\ pc = "start"
  /\ tr = NilRenderer
  /\ err = FALSE
  /\ args = <<0, 0>>
  /\ out = NotCalled

IdleRenderer ==
  /\ resp = Response(FALSE, <<>>, NamesOne)
  /\ pc = "idle"
  /\ tr = NilRenderer
  /\ err = FALSE
  /\ args = <<0, 0>>
  /\ out = NotCalled

(***************************************************************************)
(* Spec: one request, NewTimetableRenderer and then any calls of           *)
(* RenderAsText.  SpecCalc: one call of calculateArrivalTime.              *)
(***************************************************************************)
Init == InitRenderer /\ IdleCalc /\ IdleResolver /\ IdleWalk
Next == NewTimetableRenderer \/ CallRenderAsText
Spec == Init /\ [][Next]_vars

InitArrival == IdleRenderer /\ InitCalc /\ IdleResolver /\ IdleWalk
NextArrival == CallCalculateArrivalTime
SpecCalc == InitArrival /\ [][NextArrival]_vars

(***************************************************************************)
(* The claims.                                                             *)
(***************************************************************************)
StopIds(t) == {t.stops[i].id : i \in 1..Len(t.stops)}
Groups(t) == t.targetRoute.StationIntervals
\* the stop identifiers the interval groups of the selected route list
ListedStopIds(t) ==
  UNION {{g.Intervals[i].StopID : i \in 1..Len(g.Intervals)} : g \in Range(Groups(t))}
NoStopTwice(t) ==
  \A i, j \in 1..Len(t.stops) : t.stops[i].id = t.stops[j].id => i = j

\* C1 as stated: once built, row 0 is the departure stop, no stop identifier
\* is listed twice, and the number of rows is the number of distinct stop
\* identifiers listed by the interval groups.
C1_RowsAreListedStops ==
  pc = "built" =>
    /\ tr.stops[1].id = resp.DepartureStopID
    /\ NoStopTwice(tr)
    /\ Len(tr.stops) = Cardinality(ListedStopIds(tr))

\* C1 amended: once built, row 0 is the departure stop, no stop identifier
\* is listed twice, and the rows are exactly the departure stop together
\* with the stop identifiers listed by the interval groups of the selected
\* route, so that their number is the number of distinct identifiers among
\* these (one more than the groups list when none lists the departure stop).
C1_RowsAreDepartureAndListedStops ==
  pc = "built" =>
    /\ tr.stops[1].id = resp.DepartureStopID
    /\ NoStopTwice(tr)
    /\ StopIds(tr) = {resp.DepartureStopID} \cup ListedStopIds(tr)
    /\ Len(tr.stops) = Cardinality({resp.DepartureStopID} \cup ListedStopIds(tr))

\* two groups that list a common stop, one of them the departure stop too
C1_Witness ==
  /\ pc = "built"
  /\ Len(Groups(tr)) = 2
  /\ Len(tr.stops) = 3
  /\ \E i \in 1..Len(Groups(tr)[1].Intervals), j \in 1..Len(Groups(tr)[2].Intervals) :
       Groups(tr)[1].Intervals[i].StopID = Groups(tr)[2].Intervals[j].StopID
  /\ resp.DepartureStopID \in ListedStopIds(tr)

\* C2 as stated: once built, every offset table holds the departure stop,
\* at offset 0.
C2_DepartureOffsetIsZero ==
  pc = "built" =>
    \A id \in DOMAIN tr.intervalData :
      /\ resp.DepartureStopID \in DOMAIN tr.intervalData[id]
      /\ tr.intervalData[id][resp.DepartureStopID] = 0

\* C3: NewTimetableRenderer returns an error and a nil renderer when no
\* route of the response has a schedule (no timetable and no route
\* included), and a renderer and no error otherwise.
HasScheduledRoute(r) ==
  r.hasTimetable /\ \E i \in 1..Len(r.Routes) : Len(r.Routes[i].Schedules) > 0

C3_ErrorIffNoSchedule ==
  pc # "start" =>
    IF HasScheduledRoute(resp)
      THEN pc = "built" /\ ~err /\ ~tr.nil
      ELSE pc = "failed" /\ err /\ tr.nil

\* a route with a schedule behind one without: a renderer is returned
C3_Witness ==
  /\ pc = "built"
  /\ Len(resp.Routes) = 2
  /\ Len(resp.Routes[1].Schedules) = 0
  /\ ~err /\ ~tr.nil

\* C4 as stated: the result is the two-digit pair HH:MM with
\* total = hour*60 + minute + offset truncated toward zero,
\* HH = (total div 60) mod 24 and MM = total mod 60.
TwoDigits(n) == <<Digits[(n \div 10) + 1], Digits[(n % 10) + 1]>>
ClockOf(total) == TwoDigits((total \div 60) % 24) \o <<":">> \o TwoDigits(total % 60)
TotalMinutes == SscanfInt(cHour) * 60 + SscanfInt(cMinute) + TruncToInt(cOffset)

C4_ArrivalIsClockOfTotal ==
  cResult.kind = "text" => cResult.text = ClockOf(TotalMinutes)

\* C4 where the total is not negative (what remains true of the code)
C4_ArrivalIsClockOfTotalFromMidnight ==
  (cResult.kind = "text" /\ TotalMinutes >= 0) => cResult.text = ClockOf(TotalMinutes)

\* C5 as stated: an hour or minute string that is not a plain number (empty,
\* letters, digits followed by something else, a sign) counts as 0.
C5_MalformedIsZero ==
  cResult.kind = "text" =>
    cResult.text = ArrivalOf(ZeroUnlessDigits(cHour), ZeroUnlessDigits(cMinute), cOffset)

\* whether the number written with the digits d is at most the one written
\* with the digits of limit: it is shorter once its leading zeros are
\* left out, or as long and smaller at the first digit that differs
AtMost(d, limit) ==
  LET z == CHOOSE x \in 0..Len(d) :
             /\ \A i \in 1..x : d[i] = "0"
             /\ x = Len(d) \/ d[x + 1] # "0"
      e == SubSeq(d, z + 1, Len(d))
  IN  \/ Len(e) < Len(limit)
      \/ /\ Len(e) = Len(limit)
         /\ \A i \in 1..Len(e) :
              DigitVal(e[i]) > DigitVal(limit[i]) =>
                \E k \in 1..(i - 1) : DigitVal(e[k]) < DigitVal(limit[k])

\* the number the string starts with: after any leading white space, an
\* optional sign and the longest run of digits; 0 when there is no such
\* digit, when a newline is in the leading white space, or when the number
\* is outside -2^63 .. 2^63 - 1
LeadingNumber(s) ==
  LET p == CHOOSE x \in 1..(Len(s) + 1) :
             /\ \A i \in 1..(x - 1) : s[i] \in SpaceChars
             /\ x = Len(s) + 1 \/ s[x] \notin SpaceChars
      signed == p <= Len(s) /\ s[p] \in {"+", "-"}
      q == IF signed THEN p + 1 ELSE p
      e == CHOOSE x \in (q - 1)..Len(s) :
             /\ \A i \in q..x : s[i] \in DigitChars
             /\ x = Len(s) \/ s[x + 1] \notin DigitChars
      minus == signed /\ s[p] = "-"
  IN  IF e < q THEN 0
      ELSE IF ~AtMost(SubSeq(s, q, e), IF minus THEN MinInt64Digits ELSE MaxInt64Digits)
        THEN 0
      ELSE IF minus THEN -DecimalValue(SubSeq(s, q, e))
      ELSE DecimalValue(SubSeq(s, q, e))

\* C5 amended: calculateArrivalTime never fails; an hour or minute string
\* counts as the number it starts with (leading white space skipped, an
\* optional sign, then digits; what follows the digits is ignored, so "2b"
\* is 2, "1_0" is 1 and "-7" is -7), and as 0 when it starts with no such
\* number (empty, letters first, a lone sign, a newline before the number)
\* or with a number outside the 64-bit range -2^63 .. 2^63 - 1 (twenty 9s).
C5_LeadingNumberOrZero ==
  cResult.kind = "text" =>
    cResult.text = ArrivalOf(LeadingNumber(cHour), LeadingNumber(cMinute), cOffset)

\* hour "2b" counts as 2, the minute of twenty 9s and an x as 0: with
\* 5 minutes the result is 02:05
C5_Witness ==
  /\ cHour = <<"2", "b">>
  /\ cMinute = TwentyNines \o <<"x">>
  /\ cOffset = 10
  /\ cResult = Returned(<<"0", "2", ":", "0", "5">>)

(***************************************************************************)
(* Reading the text RenderAsText returned: line 4 is the header, line 5    *)
(* the separator, line 5 + i the row of stop i.  A column is " | " and     *)
(* colWidth characters; the station column is stationColWidth wide.        *)
(***************************************************************************)
Journeys == tr.schedule.KnownJourneys
Width == args[2]
HeaderOf(o) == o.text[4]
RowOf(o, i) == o.text[5 + i]
Columns(line) == Cardinality({i \in 1..Len(line) : line[i] = "|"})
LabelAt(line) == SubSeq(line, 1, Width)
CellAt(line, k) ==
  SubSeq(line, Width + (k - 1) * (colWidth + 3) + 4, Width + k * (colWidth + 3))

\* the text has the rows of the stops and shows the first n journeys
ShowsFirstJourneys(n) ==
  /\ Len(out.text) = 5 + Len(tr.stops)
  /\ Columns(HeaderOf(out)) = n
  /\ \A i \in 1..Len(tr.stops) :
       /\ Columns(RowOf(out, i)) = n
       /\ \A k \in 1..n :
            CellAt(RowOf(out, i), k) = PadRight(CellText(tr, tr.stops[i], Journeys[k]), colWidth)

\* C6 as stated: the text shows the first min(maxJourneys, number of
\* journeys) journeys, for every maxJourneys.
C6_FirstMinJourneys ==
  out.kind = "text" => ShowsFirstJourneys(Min(args[1], Len(Journeys)))

\* C6 amended: when maxJourneys > 0 the text RenderAsText returns shows the
\* first min(maxJourneys, number of journeys) journeys, in their order, and
\* drops the others; when maxJourneys <= 0 it shows every journey.
C6_HeadTruncation ==
  out.kind = "text" =>
    ShowsFirstJourneys(IF args[1] > 0 THEN Min(args[1], Len(Journeys)) ELSE Len(Journeys))

\* three journeys rendered with maxJourneys = 2: two columns
C6_Witness ==
  /\ out.kind = "text"
  /\ args[1] = 2
  /\ Len(Journeys) = 3
  /\ Columns(HeaderOf(out)) = 2

\* C7 as stated: for every column width (from 0 on), a call (one the
\* machine has the memory for) shows each station name longer than the
\* width as its first width - 3 characters and "...", and any other name
\* unchanged, padded to the width.
C7_NameShown ==
  (out.kind \notin {"none", "fatal"} /\ Width >= 0) =>
    /\ out.kind = "text"
    /\ \A i \in 1..Len(tr.stops) :
         LabelAt(RowOf(out, i)) =
           PadRight(IF Len(tr.stops[i].name) > Width
                      THEN SubSeq(tr.stops[i].name, 1, Width - 3) \o <<".", ".", ".">>
                      ELSE tr.stops[i].name,
                    Width)

\* C7 where the width is at least 3 (what remains true of the code)
C7_NameShownFromWidth3 ==
  (out.kind \notin {"none", "fatal"} /\ Width >= 3) =>
    /\ out.kind = "text"
    /\ \A i \in 1..Len(tr.stops) :
         LabelAt(RowOf(out, i)) =
           PadRight(IF Len(tr.stops[i].name) > Width
                      THEN SubSeq(tr.stops[i].name, 1, Width - 3) \o <<".", ".", ".">>
                      ELSE tr.stops[i].name,
                    Width)

\* the cell of stop s and journey j computed from one offset table
CellFrom(offsets, s, j) ==
  IF s.id \in DOMAIN offsets
    THEN calculateArrivalTime(j.Hour, j.Minute, offsets[s.id])
    ELSE <<"-", "-", "-">>

\* C8 as stated: the column of a journey whose interval group is not in the
\* offset table, in a route with an interval group, is computed from the
\* offsets of the route's first interval group.
C8_FallbackIsFirstGroup ==
  out.kind = "text" =>
    \A k \in 1..Columns(HeaderOf(out)) :
      (Journeys[k].IntervalID \notin DOMAIN tr.intervalData /\ Len(Groups(tr)) > 0) =>
        \A i \in 1..Len(tr.stops) :
          CellAt(RowOf(out, i), k) =
            PadRight(CellFrom(GroupOffsets(resp.DepartureStopID, Groups(tr)[1].Intervals),
                              tr.stops[i], Journeys[k]),
                     colWidth)

\* C9: the text has one row per stop, in the order of the stop sequence,
\* and one cell per rendered journey, in their order; a cell is "err" when
\* the journey's group is not in the offset table and the route has no
\* interval group, "---" when the table found (the journey's own, else the
\* one under the first group's identifier) lacks the stop, and otherwise the
\* arrival time for the journey's hour and minute and the stop's offset.
\* No call fails for its groups or stops: one that panics was given a width
\* below 3, or a width with which the separator line is longer than
\* maxAlloc; the one other way not to return is the machine's lack of memory.
ExpectedCell(s, j) ==
  LET known == j.IntervalID \in DOMAIN tr.intervalData
  IN  IF ~known /\ Len(Groups(tr)) = 0 THEN <<"e", "r", "r">>
      ELSE LET offsets == IF known THEN tr.intervalData[j.IntervalID]
                          ELSE tr.intervalData[ParseInt32(Groups(tr)[1].ID)]
           IN  IF s.id \notin DOMAIN offsets THEN <<"-", "-", "-">>
               ELSE calculateArrivalTime(j.Hour, j.Minute, offsets[s.id])

C9_CellIsErrDashOrArrival ==
  /\ (out.kind = "panic") =>
       \/ Width < 3
       \/ Width + Len(RenderedJourneys(Journeys, args[1])) * (colWidth + 3) > 2^48
  /\ (out.kind = "text") =>
       /\ Len(out.text) = 5 + Len(tr.stops)
       /\ \A i \in 1..Len(tr.stops) :
            /\ LabelAt(RowOf(out, i)) = PadRight(ShownName(tr.stops[i].name, Width), Width)
            /\ \A k \in 1..Columns(HeaderOf(out)) :
                 CellAt(RowOf(out, i), k) =
                   PadRight(ExpectedCell(tr.stops[i], Journeys[k]), colWidth)

\* group 1 = {A: 5, B: 12} with the 10:00 journey: 10:00, 10:05 and 10:12;
\* group 2 lacks stop A: "---" in the second column
C9_Witness ==
  /\ out.kind = "text"
  /\ Len(tr.stops) = 3
  /\ Columns(HeaderOf(out)) >= 2
  /\ CellAt(RowOf(out, 1), 1) = PadRight(<<"1", "0", ":", "0", "0">>, colWidth)
  /\ CellAt(RowOf(out, 2), 1) = PadRight(<<"1", "0", ":", "0", "5">>, colWidth)
  /\ CellAt(RowOf(out, 3), 1) = PadRight(<<"1", "0", ":", "1", "2">>, colWidth)
  /\ CellAt(RowOf(out, 2), 2) = PadRight(<<"-", "-", "-">>, colWidth)

\* a route without interval group: every cell is "err"
C9_WitnessErr ==
  /\ out.kind = "text"
  /\ Len(Groups(tr)) = 0
  /\ CellAt(RowOf(out, 1), 1) = PadRight(<<"e", "r", "r">>, colWidth)

\* the journey list of the schedule the renderer was built on, read from the
\* response: the first schedule of the first route that has one
JourneysOfResponse ==
  LET k == CHOOSE i \in 1..Len(resp.Routes) :
             /\ Len(resp.Routes[i].Schedules) > 0
             /\ \A j \in 1..(i - 1) : Len(resp.Routes[j].Schedules) = 0
  IN  resp.Routes[k].Schedules[1].KnownJourneys

(***************************************************************************)
HasSchedule(route) == Len(route.Schedules) > 0
\* the stop identifiers a list of interval groups lists, in reading order
ListedInOrder(groups) ==
  Concat([g \in 1..Len(groups) |->
    [i \in 1..Len(groups[g].Intervals) |-> groups[g].Intervals[i].StopID]])
FirstListing(listed, id) ==
  CHOOSE n \in 1..Len(listed) :
    listed[n] = id /\ \A m \in 1..(n - 1) : listed[m] # id

\* C17: the renderer is built on the first route that has a schedule and on
\* the first schedule of that route; its rows and its offset tables are
\* those of the interval groups of that route and of no other.
C17_FirstScheduledRoute ==
  pc = "built" =>
    \E k \in 1..Len(resp.Routes) :
      LET route == resp.Routes[k] IN
        /\ HasSchedule(route)
        /\ \A j \in 1..(k - 1) : ~HasSchedule(resp.Routes[j])
        /\ tr.targetRoute = route
        /\ tr.schedule = route.Schedules[1]
        /\ StopIds(tr) =
             {resp.DepartureStopID} \cup Range(ListedInOrder(route.StationIntervals))
        /\ \A n \in DOMAIN tr.intervalData :
             \E g \in Range(route.StationIntervals) :
               /\ ParseInt32(g.ID) = n
               /\ DOMAIN tr.intervalData[n] =
                    {resp.DepartureStopID} \cup Range(ListedInOrder(<<g>>))
        /\ \A g \in Range(route.StationIntervals) :
             ParseInt32(g.ID) \in DOMAIN tr.intervalData
\* the first route lists stop A and has no schedule; the second has two
\* schedules and lists stop B only
C17_Witness ==
  /\ pc = "built"
  /\ resp.Routes = <<Route(<<>>, <<GroupOne>>),
                     Route(<<SundaySchedule, WeekdaySchedule>>, <<GroupTwo>>)>>
  /\ tr.schedule = SundaySchedule
  /\ StopIds(tr) = {DEP, StopB}
  /\ DOMAIN tr.intervalData = {2}

\* C18: of two rows below the departure row, the upper one is the stop that
\* is listed first when the interval groups of the selected route are read
\* in order, each from its first entry to its last.
C18_RowsInFirstListingOrder ==
  pc = "built" =>
    LET listed == ListedInOrder(tr.targetRoute.StationIntervals) IN
      \A i, j \in 2..Len(tr.stops) :
        (/\ i < j
         /\ tr.stops[i].id # resp.DepartureStopID
         /\ tr.stops[j].id # resp.DepartureStopID)
          => FirstListing(listed, tr.stops[i].id) < FirstListing(listed, tr.stops[j].id)
\* stop B is listed by the first group, at the larger offset, and stop A by
\* the second only: B is above A
C18_Witness ==
  /\ pc = "built"
  /\ Len(tr.stops) = 3
  /\ tr.stops[2].id = StopB
  /\ tr.stops[3].id = StopA
  /\ tr.targetRoute.StationIntervals[1].Intervals[1].StopID = StopB
  /\ tr.targetRoute.StationIntervals[1].Intervals[1].TimeToArrival >
       tr.targetRoute.StationIntervals[2].Intervals[1].TimeToArrival

(***************************************************************************)
(* The station resolver (main.go).                                         *)
(*                                                                         *)
(* Representation.                                                         *)
(*  - A stop point is [ID, NaptanID, Children, Lines]; a place (a child)   *)
(*    is [ID, Children]; a line is [ID]; a pair is [LineID, StopPointID].  *)
(*  - The upstream service is the environment: each call is answered by an *)
(*    error or by any payload, whatever was requested (the mock client of  *)
(*    main_test.go answers every StopPointGet with the same payload).      *)
(*  - Lists hold no nil element and an answer that is not an error has a   *)
(*    payload.                                                             *)
(***************************************************************************)
MaxMatches == 2     \* matches of a search answer
MaxPayload == 2     \* stop points of a StopPointGet answer

HUB == <<"H", "U", "B">>
P940G == <<"9", "4", "0", "G">>
HUBAMR == <<"H", "U", "B", "A", "M", "R">>
HUBRMD == <<"H", "U", "B", "R", "M", "D">>
Amersham == <<"A", "m", "e", "r", "s", "h", "a", "m">>
Richmond == <<"R", "i", "c", "h", "m", "o", "n", "d">>

\* strings.HasPrefix
HasPrefix(s, prefix) ==
  /\ Len(s) >= Len(prefix)
  /\ SubSeq(s, 1, Len(prefix)) = prefix

\* strings.EqualFold on ASCII: equal up to the case of the letters
UpperLetters ==
  <<"A", "B", "C", "D", "E", "F", "G", "H", "I", "J", "K", "L", "M",
    "N", "O", "P", "Q", "R", "S", "T", "U", "V", "W", "X", "Y", "Z">>
LowerLetters ==
  <<"a", "b", "c", "d", "e", "f", "g", "h", "i", "j", "k", "l", "m",
    "n", "o", "p", "q", "r", "s", "t", "u", "v", "w", "x", "y", "z">>
Fold(c) ==
  IF \E k \in 1..26 : UpperLetters[k] = c
    THEN LowerLetters[CHOOSE k \in 1..26 : UpperLetters[k] = c]
    ELSE c
EqualFold(s, t) ==
  /\ Len(s) = Len(t)
  /\ \A k \in 1..Len(s) : Fold(s[k]) = Fold(t[k])

\* the concatenation of a sequence of sequences, in order
RECURSIVE Flatten(_)
Flatten(ss) == IF ss = <<>> THEN <<>> ELSE Head(ss) \o Flatten(Tail(ss))

\* the identifiers of the matches, padded to two when there is one
PadIdsWithDefault(ids) == IF Len(ids) = 1 THEN Append(ids, HUBAMR) ELSE ids
PadIds(ids) ==
  IF Len(ids) = 1
    THEN Append(ids, IF ids[1] = HUBAMR THEN HUBRMD ELSE HUBAMR)
    ELSE ids

RECURSIVE getSpecificIDsFromChildren(_)
getSpecificIDsFromChildren(places) ==
  Flatten([k \in 1..Len(places) |->
    (IF HasPrefix(places[k].ID, P940G) THEN <<places[k].ID>> ELSE <<>>)
      \o getSpecificIDsFromChildren(places[k].Children)])

\* the first loop: what one stop point of the first answer appends
FirstLoopSkips(sp, stationName) == sp.ID = HUBAMR /\ stationName # Amersham
FirstLoopAppends(sp, stationName) ==
  IF FirstLoopSkips(sp, stationName) THEN <<>>
  ELSE IF HasPrefix(sp.ID, HUB) THEN getSpecificIDsFromChildren(sp.Children)
  ELSE <<sp.ID>>
CollectNaptanIDs(stopPoints, stationName) ==
  Flatten([k \in 1..Len(stopPoints) |-> FirstLoopAppends(stopPoints[k], stationName)])

\* the identifiers of the second request
PadNaptanIDs(ids) == IF Len(ids) = 1 THEN Append(ids, HUBAMR) ELSE ids

\* the second loop: what one stop point of the second answer appends
SecondLoopSkips(sp, stationName) ==
  HasPrefix(sp.ID, HUB) /\ (stationName # Amersham \/ sp.ID # HUBAMR)
PairsOf(sp) ==
  [k \in 1..Len(sp.Lines) |->
    [LineID |-> sp.Lines[k].ID, StopPointID |-> sp.NaptanID]]
SecondLoopAppends(sp, stationName) ==
  IF SecondLoopSkips(sp, stationName) THEN <<>> ELSE PairsOf(sp)
CollectPairs(stopPoints, stationName) ==
  Flatten([k \in 1..Len(stopPoints) |-> SecondLoopAppends(stopPoints[k], stationName)])

\* "return nil, err", "return nil, nil" and "return pairs, nil"
ReturnErrorSwallowed == Ret(<<>>, <<>>, FALSE)
ReturnError == Ret(<<>>, <<>>, TRUE)
ReturnNothing == Ret(<<>>, <<>>, FALSE)
ReturnPairs(pairs) == Ret(pairs, <<>>, FALSE)

\* line 696: the second request is made for a non-empty list only
AlwaysSecondGet(ids) == TRUE
NeedsSecondGet(ids) == Len(ids) > 0

\* an upstream call, as it is logged
SearchCall(failed) == [op |-> "StopPointSearch", ids |-> <<>>, failed |-> failed]
GetCall(ids, failed) == [op |-> "StopPointGet", ids |-> ids, failed |-> failed]

(***************************************************************************)
(* getLinesAndStops, one action for each upstream call it makes together   *)
(* with the code that runs on the answer, up to the next call or return.   *)
(***************************************************************************)
RMD == <<"9", "4", "0", "G", "Z", "Z", "L", "U", "R", "M", "D">>
KWG == <<"9", "4", "0", "G", "Z", "Z", "L", "U", "K", "W", "G">>
AMS == <<"9", "4", "0", "G", "Z", "Z", "L", "U", "A", "M", "S">>
RAIL == <<"9", "1", "0", "G", "R", "I", "C", "H", "M", "N", "D">>
HUBXYZ == <<"H", "U", "B", "X", "Y", "Z">>
district == <<"d", "i", "s", "t", "r", "i", "c", "t">>
metropolitan == <<"m", "e", "t">>
overground == <<"o", "v", "e", "r">>

Place(id, children) == [ID |-> id, Children |-> children]
Line(id) == [ID |-> id]
StopPoint(id, children, lines) ==
  [ID |-> id, NaptanID |-> id, Children |-> children, Lines |-> lines]

SpHubAMR == StopPoint(HUBAMR, <<Place(AMS, <<>>)>>, <<Line(metropolitan)>>)
SpHubRMD ==
  StopPoint(HUBRMD,
            <<Place(RAIL, <<Place(RMD, <<Place(KWG, <<>>)>>)>>), Place(RAIL, <<>>)>>,
            <<Line(district)>>)
SpRMD == StopPoint(RMD, <<>>, <<Line(district), Line(overground)>>)
SpHubXYZ == StopPoint(HUBXYZ, <<Place(RAIL, <<>>)>>, <<Line(overground)>>)
StopPointPool == {SpHubAMR, SpHubRMD, SpRMD, SpHubXYZ}
MatchIds == {HUBAMR, HUBRMD, RMD}
StationQueries == {Amersham, Richmond}
ResolveIds == {HUBAMR, HUBRMD, RMD, <<"H", "U", "B", "r", "m", "d">>}

SearchAnswers ==
  {[failed |-> TRUE, matches |-> <<>>]}
  \cup {[failed |-> FALSE, matches |-> m] : m \in SeqUpTo(MatchIds, MaxMatches)}
GetAnswers ==
  {[failed |-> TRUE, payload |-> <<>>]}
  \cup {[failed |-> FALSE, payload |-> q] : q \in SeqUpTo(StopPointPool, MaxPayload)}

InitResolver ==
  /\ op \in {"getLinesAndStops", "resolveStopPointID"}
  /\ IF op = "getLinesAndStops"
       THEN station \in StationQueries /\ rid = <<>> /\ gpc = "search"
       ELSE station = <<>> /\ rid \in ResolveIds /\ gpc = "resolve"
  /\ matches = <<>>
  /\ calls = <<>>
  /\ payload = <<>>
  /\ naptanIDs = <<>>
  /\ ret = NotReturned

\* lines 639-668: the search, and the identifiers of the first request
StopPointSearch ==
  /\ op = "getLinesAndStops"
  /\ gpc = "search"
  /\ \E a \in SearchAnswers :
       /\ calls' = Append(calls, SearchCall(a.failed))
       /\ matches' = a.matches
       /\ IF a.failed
            THEN gpc' = "done" /\ ret' = ReturnError
          ELSE IF Len(a.matches) = 0
            THEN gpc' = "done" /\ ret' = ReturnNothing
          ELSE gpc' = "get1" /\ ret' = ret
  /\ UNCHANGED <<op, station, rid, payload, naptanIDs>>
  /\ UNCHANGED <<rvars, cvars, wvars>>

\* lines 670-701: the first request and the first loop
FirstStopPointGet ==
  /\ op = "getLinesAndStops"
  /\ gpc = "get1"
  /\ \E a \in GetAnswers :
       /\ calls' = Append(calls, GetCall(PadIds(matches), a.failed))
       /\ IF a.failed
            THEN /\ gpc' = "done"
                 /\ ret' = ReturnError
                 /\ UNCHANGED <<payload, naptanIDs>>
            ELSE /\ payload' = a.payload
                 /\ naptanIDs' = CollectNaptanIDs(a.payload, station)
                 /\ IF NeedsSecondGet(naptanIDs')
                      THEN gpc' = "get2" /\ ret' = ret
                      ELSE gpc' = "done" /\ ret' = ReturnPairs(<<>>)
  /\ UNCHANGED <<op, station, rid, matches>>
  /\ UNCHANGED <<rvars, cvars, wvars>>

\* lines 703-721: the second request and the second loop
SecondStopPointGet ==
  /\ op = "getLinesAndStops"
  /\ gpc = "get2"
  /\ \E a \in GetAnswers :
       /\ calls' = Append(calls, GetCall(PadNaptanIDs(naptanIDs), a.failed))
       /\ gpc' = "done"
       /\ IF a.failed
            THEN /\ ret' = ReturnError
                 /\ UNCHANGED payload
            ELSE /\ payload' = a.payload
                 /\ ret' = ReturnPairs(CollectPairs(a.payload, station))
  /\ UNCHANGED <<op, station, rid, matches, naptanIDs>>
  /\ UNCHANGED <<rvars, cvars, wvars>>

(***************************************************************************)
(* resolveStopPointID and findDeepID (the main.go that resolves one id).   *)
(***************************************************************************)
RECURSIVE findDeepID(_)
findDeepID(places) ==
  IF places = <<>> THEN <<>>
  ELSE IF HasPrefix(places[1].ID, P940G) THEN places[1].ID
  ELSE IF findDeepID(places[1].Children) # <<>> THEN findDeepID(places[1].Children)
  ELSE findDeepID(Tail(places))

\* the two identifiers resolveStopPointID asks for
ResolveIdsOf(id) == <<id, IF id = HUBRMD THEN HUBAMR ELSE HUBRMD>>

\* the stop point resolveStopPointID reads the children of
TargetStopPoint(stopPoints, id) ==
  IF \E k \in 1..Len(stopPoints) : EqualFold(stopPoints[k].ID, id)
    THEN stopPoints[CHOOSE k \in 1..Len(stopPoints) :
           /\ EqualFold(stopPoints[k].ID, id)
           /\ \A j \in 1..(k - 1) : ~EqualFold(stopPoints[j].ID, id)]
    ELSE stopPoints[1]

ResolvedID(stopPoints, id) ==
  IF Len(stopPoints) = 0 THEN id
  ELSE IF findDeepID(TargetStopPoint(stopPoints, id).Children) # <<>>
    THEN findDeepID(TargetStopPoint(stopPoints, id).Children)
  ELSE id

resolveStopPointID ==
  /\ op = "resolveStopPointID"
  /\ gpc = "resolve"
  /\ gpc' = "done"
  /\ IF ~HasPrefix(rid, HUB)
       THEN /\ ret' = Ret(<<>>, rid, FALSE)
            /\ UNCHANGED <<calls, payload>>
       ELSE \E a \in GetAnswers :
              /\ calls' = Append(calls, GetCall(ResolveIdsOf(rid), a.failed))
              /\ IF a.failed
                   THEN /\ ret' = Ret(<<>>, <<>>, TRUE)
                        /\ UNCHANGED payload
                   ELSE /\ payload' = a.payload
                        /\ ret' = Ret(<<>>, ResolvedID(a.payload, rid), FALSE)
  /\ UNCHANGED <<op, station, rid, matches, naptanIDs>>
  /\ UNCHANGED <<rvars, cvars, wvars>>

(***************************************************************************)
(* SpecResolver: one call of getLinesAndStops or of resolveStopPointID.    *)
(***************************************************************************)
InitResolve == IdleRenderer /\ IdleCalc /\ InitResolver /\ IdleWalk
NextResolve ==
  \/ StopPointSearch
  \/ FirstStopPointGet
  \/ SecondStopPointGet
  \/ resolveStopPointID
SpecResolver == InitResolve /\ [][NextResolve]_vars

(***************************************************************************)
(* The walk over the children of a hub, as the recursion runs it.          *)
(*                                                                         *)
(* Places are held by pointer, so a place can be its own descendant: heap  *)
(* gives the Children list of every place.  A frame of the recursion is    *)
(* the list it ranges over and the index of the next element; ids of a     *)
(* call is appended to the caller's ids on return, so the identifiers are  *)
(* kept in one list, in the order they are appended.  A goroutine stack is *)
(* finite: a call that does not fit ends the program (fatal stack          *)
(* overflow), StackLimit frames being what fits.                           *)
(***************************************************************************)
MaxKids == 2        \* children of a place
StackLimit == 5     \* frames that fit on the stack

PlaceNames == {"p1", "p2", "p3"}
PlaceId(p) ==
  CASE p = "p1" -> HUBXYZ
    [] p = "p2" -> RMD
    [] p = "p3" -> KWG
Frame(places) == [places |-> places, i |-> 1]
Heaps == [PlaceNames -> SeqUpTo(PlaceNames, MaxKids)]

InitWalk ==
  /\ walker \in {"getSpecificIDsFromChildren", "findDeepID"}
  /\ heap \in Heaps
  /\ wpc = "start"
  /\ wstack = <<>>
  /\ wids = <<>>

\* the call on the children of the hub
WalkCall ==
  /\ wpc = "start"
  /\ wpc' = "run"
  /\ wstack' = <<Frame(heap["p1"])>>
  /\ UNCHANGED <<walker, heap, wids>>
  /\ UNCHANGED <<rvars, cvars, gvars>>

\* the frames after the innermost one has moved to its next element
Advanced(stack) ==
  [stack EXCEPT ![Len(stack)].i = stack[Len(stack)].i + 1]
Top == wstack[Len(wstack)]

\* the range loop is over: the innermost call returns
WalkReturn ==
  /\ wpc = "run"
  /\ Top.i > Len(Top.places)
  /\ wstack' = SubSeq(wstack, 1, Len(wstack) - 1)
  /\ wpc' = IF Len(wstack) = 1 THEN "done" ELSE "run"
  /\ UNCHANGED <<walker, heap, wids>>
  /\ UNCHANGED <<rvars, cvars, gvars>>

\* one iteration of getSpecificIDsFromChildren, up to its recursive call
WalkCollect ==
  /\ wpc = "run"
  /\ walker = "getSpecificIDsFromChildren"
  /\ Top.i <= Len(Top.places)
  /\ LET p == Top.places[Top.i] IN
       /\ wids' = IF HasPrefix(PlaceId(p), P940G)
                    THEN Append(wids, PlaceId(p)) ELSE wids
       /\ IF Len(wstack) < StackLimit
            THEN wstack' = Append(Advanced(wstack), Frame(heap[p])) /\ wpc' = "run"
            ELSE wstack' = wstack /\ wpc' = "overflow"
  /\ UNCHANGED <<walker, heap>>
  /\ UNCHANGED <<rvars, cvars, gvars>>

\* one iteration of findDeepID: a found id is returned by every caller
WalkFind ==
  /\ wpc = "run"
  /\ walker = "findDeepID"
  /\ Top.i <= Len(Top.places)
  /\ LET p == Top.places[Top.i] IN
       IF HasPrefix(PlaceId(p), P940G)
         THEN wids' = <<PlaceId(p)>> /\ wstack' = <<>> /\ wpc' = "done"
       ELSE IF Len(wstack) < StackLimit
         THEN /\ wstack' = Append(Advanced(wstack), Frame(heap[p]))
              /\ wpc' = "run"
              /\ wids' = wids
       ELSE wstack' = wstack /\ wpc' = "overflow" /\ wids' = wids
  /\ UNCHANGED <<walker, heap>>
  /\ UNCHANGED <<rvars, cvars, gvars>>

InitWalker == IdleRenderer /\ IdleCalc /\ IdleResolver /\ InitWalk
NextWalk == WalkCall \/ WalkReturn \/ WalkCollect \/ WalkFind
SpecWalk == InitWalker /\ [][NextWalk]_vars

(***************************************************************************)
(* The claims about the resolver.                                          *)
(***************************************************************************)
GetLinesAndStopsReturned == op = "getLinesAndStops" /\ ret.done
\* the first StopPointGet has answered and the second has not been made:
\* payload is the first answer and naptanIDs what the first loop collected
FirstAnswerInHand ==
  op = "getLinesAndStops" /\ Len(calls) = 2 /\ ~calls[2].failed
\* the second StopPointGet has answered: payload is the second answer
SecondAnswerInHand ==
  op = "getLinesAndStops" /\ Len(calls) = 3 /\ ~calls[3].failed
IsHub(id) == HasPrefix(id, HUB)
Without(stopPoints, id) == SelectSeq(stopPoints, LAMBDA sp : sp.ID # id)
Has(stopPoints, id) == \E k \in 1..Len(stopPoints) : stopPoints[k].ID = id

\* C11: no pair getLinesAndStops returns has a hub identifier (one that
\* starts with "HUB") as its stop.
C11_NoHubStopInPairs ==
  GetLinesAndStopsReturned =>
    \A k \in 1..Len(ret.pairs) : ~IsHub(ret.pairs[k].StopPointID)

\* all the places below a list of places, parents before children
RECURSIVE PreOrder(_)
PreOrder(places) ==
  Flatten([k \in 1..Len(places) |-> <<places[k]>> \o PreOrder(places[k].Children)])
PlatformIdsBelow(sp) ==
  {q.ID : q \in {x \in Range(PreOrder(sp.Children)) : HasPrefix(x.ID, P940G)}}

\* C12: when a request was padded with a sentinel, the stop point returned
\* for the sentinel adds nothing: what is collected from the first answer,
\* and the pairs made from the second, are what they would be without it;
\* and a hub that was matched (not padded) has its platforms collected.
C12_SentinelContributesNothing ==
  /\ FirstAnswerInHand /\ Len(matches) = 1 =>
       naptanIDs = CollectNaptanIDs(Without(payload, calls[2].ids[2]), station)
  /\ SecondAnswerInHand /\ Len(naptanIDs) = 1 =>
       ret.pairs = CollectPairs(Without(payload, calls[3].ids[2]), station)
  /\ FirstAnswerInHand =>
       \A k \in 1..Len(payload) :
         (IsHub(payload[k].ID) /\ payload[k].ID \in Range(matches)) =>
           PlatformIdsBelow(payload[k]) \subseteq Range(naptanIDs)

\* C13: getLinesAndStops returns an error exactly when one of its upstream
\* calls failed, and then no pairs; on a search without matches it returns
\* no pairs and no error.
C13_ErrorOrPairs ==
  GetLinesAndStopsReturned =>
    /\ ret.err <=> \E k \in 1..Len(calls) : calls[k].failed
    /\ ret.err => ret.pairs = <<>>
    /\ (~calls[1].failed /\ matches = <<>>) => (~ret.err /\ ret.pairs = <<>>)
\* the second StopPointGet failed after platforms had been collected
C13_Witness ==
  /\ GetLinesAndStopsReturned
  /\ Len(calls) = 3
  /\ calls[3].failed
  /\ naptanIDs = <<RMD, KWG>>
  /\ ret.err
  /\ ret.pairs = <<>>

\* C14: every StopPointGet asks for at least two identifiers, and an
\* identifier added to a single one differs from it.
C14_TwoIdentifiers ==
  /\ \A k \in 1..Len(calls) :
       calls[k].op = "StopPointGet" => Len(calls[k].ids) >= 2
  /\ (op = "getLinesAndStops" /\ Len(calls) >= 2 /\ Len(matches) = 1) =>
       /\ calls[2].ids[1] = matches[1]
       /\ calls[2].ids[2] # matches[1]
  /\ (op = "getLinesAndStops" /\ Len(calls) = 3 /\ Len(naptanIDs) = 1) =>
       /\ calls[3].ids[1] = naptanIDs[1]
       /\ calls[3].ids[2] # naptanIDs[1]
  /\ (op = "resolveStopPointID" /\ Len(calls) = 1) =>
       /\ calls[1].ids[1] = rid
       /\ calls[1].ids[2] # rid
\* the one match is the default sentinel itself, and the other is added
C14_Witness ==
  /\ op = "getLinesAndStops"
  /\ matches = <<HUBAMR>>
  /\ Len(calls) = 2
  /\ calls[2].ids = <<HUBAMR, HUBRMD>>

\* a place is below itself
RECURSIVE Reaches(_, _, _)
Reaches(p, q, n) ==
  /\ n > 0
  /\ \E k \in 1..Len(heap[p]) : heap[p][k] = q \/ Reaches(heap[p][k], q, n - 1)
Cyclic == \E p \in PlaceNames : Reaches(p, p, Cardinality(PlaceNames))

\* on a tree (no place below itself) every walk fits on the stack
WalkEndsOnTrees == Cyclic \/ wpc # "overflow"

\* C15: the walk over the children of a hub ends on every input, a place
\* that is its own descendant included: it never runs out of stack.
C15_WalkEnds == wpc # "overflow"

\* the pairs a list of stop points stands for: one for each line of each
\* stop point, in the order of the list
LinePairs(stopPoints) ==
  Flatten([k \in 1..Len(stopPoints) |->
    [n \in 1..Len(stopPoints[k].Lines) |->
      [LineID |-> stopPoints[k].Lines[n].ID,
       StopPointID |-> stopPoints[k].NaptanID]]])
Platforms(stopPoints) == SelectSeq(stopPoints, LAMBDA sp : ~IsHub(sp.ID))

\* C16: when the second StopPointGet answers, the pairs returned are one
\* for each line of each platform of the answer (hubs, the sentinel among
\* them, left out), in the order of the answer and with duplicates kept.
C16_PairsAreLinesOfPlatforms ==
  SecondAnswerInHand => ret.pairs = LinePairs(Platforms(payload))

\* C19: the upstream calls of one getLinesAndStops are a search, a
\* StopPointGet and a second StopPointGet, in this order and each at most
\* once; none follows a call that failed, no StopPointGet follows a search
\* without matches, and the second StopPointGet is made only when an
\* identifier was collected.
C19_CallOrder ==
  op = "getLinesAndStops" =>
    /\ Len(calls) <= 3
    /\ \A k \in 1..Len(calls) :
         calls[k].op = IF k = 1 THEN "StopPointSearch" ELSE "StopPointGet"
    /\ \A k \in 1..(Len(calls) - 1) : ~calls[k].failed
    /\ Len(calls) >= 2 => Len(matches) > 0
    /\ Len(calls) = 3 => Len(naptanIDs) >= 1
    /\ (ret.done /\ ~ret.err /\ Len(calls) = 2) => naptanIDs = <<>>
\* the first StopPointGet answered with hubs that hold no platform, and the
\* function returned without a second request
C19_Witness ==
  /\ GetLinesAndStopsReturned
  /\ Len(calls) = 2
  /\ ~calls[2].failed
  /\ payload = <<SpHubXYZ>>
  /\ naptanIDs = <<>>
  /\ ~ret.err

\* what a stop point of the first answer stands for: the platforms below
\* a hub, parents before children; the stop point itself otherwise
PlatformsOf(sp) ==
  IF IsHub(sp.ID)
    THEN [k \in 1..Len(SelectSeq(PreOrder(sp.Children), LAMBDA q : HasPrefix(q.ID, P940G))) |->
           SelectSeq(PreOrder(sp.Children), LAMBDA q : HasPrefix(q.ID, P940G))[k].ID]
    ELSE <<sp.ID>>
\* the first answer holds no stop point for an identifier that was added
NoSentinelAnswered == Len(matches) = 1 => ~Has(payload, calls[2].ids[2])

\* C20: of a first answer that holds no sentinel, the identifiers collected
\* are, stop point after stop point, the platforms below it in pre-order
\* when it is a hub and its own identifier when it is not.
C20_CollectedArePlatforms ==
  (FirstAnswerInHand /\ NoSentinelAnswered) =>
    naptanIDs = Flatten([k \in 1..Len(payload) |-> PlatformsOf(payload[k])])
\* the same, of the stop points the first loop does not skip
C20_CollectedArePlatformsOfKept ==
  FirstAnswerInHand =>
    naptanIDs = Flatten([k \in 1..Len(payload) |->
      IF FirstLoopSkips(payload[k], station) THEN <<>> ELSE PlatformsOf(payload[k])])

(***************************************************************************)
(* The claims about the width of the table, the form of the arrival time   *)
(* and the offset table of every interval group.                           *)
(***************************************************************************)
\* the number of journeys RenderAsText renders
Rendered == IF args[1] > 0 THEN Min(args[1], Len(Journeys)) ELSE Len(Journeys)
SeparatorOf(o) == o.text[5]
TrainLabel(k) == PadRight(<<"T", "r", "a", "i", "n", " ">> \o Itoa(k), colWidth)
\* the header, the separator and every row are w characters long, and the
\* header has the labels "Train 1" .. "Train n" as its columns
TableIsWide(w, n) ==
  /\ Len(HeaderOf(out)) = w
  /\ Len(SeparatorOf(out)) = w
  /\ \A i \in 1..Len(tr.stops) : Len(RowOf(out, i)) = w
  /\ \A k \in 1..n :
       SubSeq(HeaderOf(out), w - (n - k + 1) * (colWidth + 3) + 1,
              w - (n - k) * (colWidth + 3))
         = <<" ", "|", " ">> \o TrainLabel(k)

\* C21: in the text of RenderAsText the header, the separator and every
\* stop row are stationColWidth + n * (10 + 3) characters long, n being the
\* number of journeys rendered, and the header lists "Train 1" .. "Train n";
\* for every column width and number of journeys.
C21_LinesHaveOneWidth ==
  out.kind = "text" => TableIsWide(Width + Rendered * (colWidth + 3), Rendered)

\* what remains true: the separator and the rows have that width from
\* width 0 on, and the header is as wide whenever "Station" fits
C21_RowsAndSeparatorHaveOneWidth ==
  (out.kind = "text" /\ Width >= 0) =>
    /\ Len(SeparatorOf(out)) = Width + Rendered * (colWidth + 3)
    /\ \A i \in 1..Len(tr.stops) :
         Len(RowOf(out, i)) = Width + Rendered * (colWidth + 3)
    /\ Len(HeaderOf(out)) =
         (IF Width < 7 THEN 7 ELSE Width) + Rendered * (colWidth + 3)

\* two digits, a colon and two digits, the hour at most 23 and the minute
\* at most 59
IsClockTime(t) ==
  /\ Len(t) = 5
  /\ t[3] = ":"
  /\ \A k \in {1, 2, 4, 5} : t[k] \in DigitChars
  /\ DigitVal(t[1]) * 10 + DigitVal(t[2]) <= 23
  /\ DigitVal(t[4]) * 10 + DigitVal(t[5]) <= 59

\* C22: for every hour string, minute string and offset, negative offsets
\* and numbers outside 0..23 and 0..59 included, calculateArrivalTime
\* returns two digits, a colon and two digits, the hour within 00..23 and
\* the minute within 00..59.
C22_ArrivalIsClockTime ==
  cResult.kind = "text" => IsClockTime(cResult.text)

\* what remains true: the result is a clock time when the total of the
\* minutes is not negative
C22_ArrivalIsClockTimeFromMidnight ==
  (cResult.kind = "text" /\ TotalMinutes >= 0) => IsClockTime(cResult.text)

\* the int32 keys of the interval groups of the selected route
GroupKey(g) == ParseInt32(g.ID)
SelectedGroups == tr.targetRoute.StationIntervals
\* every group has its own entry, which holds the offsets of that group
EveryGroupHasItsTable ==
  /\ Cardinality(DOMAIN tr.intervalData) = Len(SelectedGroups)
  /\ \A k \in 1..Len(SelectedGroups) :
       /\ GroupKey(SelectedGroups[k]) \in DOMAIN tr.intervalData
       /\ tr.intervalData[GroupKey(SelectedGroups[k])] =
            GroupOffsets(resp.DepartureStopID, SelectedGroups[k].Intervals)

\* C23: after NewTimetableRenderer the offset table has one entry for each
\* interval group of the selected route, and the entry of a group holds the
\* offsets of that group, also when identifiers are no numbers or repeated.
C23_EveryGroupRetrievable ==
  pc = "built" => EveryGroupHasItsTable

\* what remains true: it is so when no two groups have the same int32 key
C23_DistinctKeysRetrievable ==
  (/\ pc = "built"
   /\ \A k, n \in 1..Len(SelectedGroups) :
        GroupKey(SelectedGroups[k]) = GroupKey(SelectedGroups[n]) => k = n)
    => EveryGroupHasItsTable

====
